---- MODULE Spec2Model ----
(***************************************************************************)
(* Event extraction, event serialisation and event-graph construction of   *)
(* event-planned-story-gen.                                                *)
(*                                                                         *)
(* A Python str is a sequence of one-character strings, so that split,     *)
(* strip, replace, startswith and endswith are computed character by       *)
(* character as CPython computes them.                                     *)
(***************************************************************************)
EXTENDS Integers, Sequences, FiniteSets, TLC

(***************************************************************************)
(* Bounds of the model.                                                    *)
(***************************************************************************)
MaxStories == 2
MaxEvents == 2
MaxPieces == 3
MaxTokens == 2
MaxSentences == 2

(***************************************************************************)
(* Python str primitives.                                                  *)
(***************************************************************************)
Whitespace == {" "}

\* s[i..] starts with p
OccursAt(s, p, i) ==
    /\ i >= 1
    /\ i + Len(p) - 1 <= Len(s)
    /\ SubSeq(s, i, i + Len(p) - 1) = p

\* str.startswith
StartsWith(s, p) == OccursAt(s, p, 1)

\* str.endswith
EndsWith(s, p) == OccursAt(s, p, Len(s) - Len(p) + 1)

\* str.find, 1-based; 0 when p does not occur in s
Find(s, p) ==
    LET hits == {i \in 1..Len(s) : OccursAt(s, p, i)}
    IN  IF hits = {} THEN 0 ELSE CHOOSE i \in hits : \A j \in hits : i <= j

\* the `in` operator on str
Contains(s, p) == Find(s, p) # 0

\* str.split(sep) for a non-empty sep
RECURSIVE Split(_, _)
Split(s, sep) ==
    LET k == Find(s, sep)
    IN  IF k = 0 THEN <<s>>
        ELSE <<SubSeq(s, 1, k - 1)>> \o Split(SubSeq(s, k + Len(sep), Len(s)), sep)

\* str.replace(old, "") : every non-overlapping occurrence, left to right
RECURSIVE ReplaceAll(_, _)
ReplaceAll(s, old) ==
    LET k == Find(s, old)
    IN  IF k = 0 THEN s
        ELSE SubSeq(s, 1, k - 1) \o ReplaceAll(SubSeq(s, k + Len(old), Len(s)), old)

\* str.replace(old, "", 1) : the first occurrence only
ReplaceFirst(s, old) ==
    LET k == Find(s, old)
    IN  IF k = 0 THEN s
        ELSE SubSeq(s, 1, k - 1) \o SubSeq(s, k + Len(old), Len(s))

\* str.strip()
Strip(s) ==
    LET solid == {i \in 1..Len(s) : s[i] \notin Whitespace}
    IN  IF solid = {} THEN <<>>
        ELSE LET lo == CHOOSE i \in solid : \A j \in solid : i <= j
                 hi == CHOOSE i \in solid : \A j \in solid : i >= j
             IN  SubSeq(s, lo, hi)

\* sep.join(parts)
RECURSIVE Join(_, _)
Join(sep, parts) ==
    IF parts = <<>> THEN <<>>
    ELSE IF Len(parts) = 1 THEN parts[1]
    ELSE parts[1] \o sep \o Join(sep, Tail(parts))

\* the filter left out
NonEmpty_KeepAll(xs) == xs

\* [x for x in xs if x]
RECURSIVE NonEmpty(_)
NonEmpty(xs) ==
    IF xs = <<>> THEN <<>>
    ELSE IF xs[1] = <<>> THEN NonEmpty(Tail(xs))
    ELSE <<xs[1]>> \o NonEmpty(Tail(xs))

(***************************************************************************)
(* config/event_special_tokens.py                                          *)
(***************************************************************************)
EVENT_START == <<"[", "E", "V", "E", "N", "T", "_", "s", "]">>
EVENT_SEPERATOR == <<"[", "E", "V", "E", "N", "T", "_", "s", "e", "p", "]">>
EVENT_END == <<"[", "E", "V", "E", "N", "T", "_", "e", "]">>
CHAR_TAGS == <<EVENT_START, EVENT_SEPERATOR, EVENT_END>>

SP == <<" ">>

(***************************************************************************)
(* src/event_extraction/event.py : class Event.  A component is a pair     *)
(* <<text, index>>; event_info keeps its four lists in insertion order     *)
(* trigger, modifiers, agents, comps.                                      *)
(***************************************************************************)
Event(trigger, event_info) == [trigger |-> trigger, event_info |-> event_info]

\* dict.values() of event_info, flattened by list.extend
AllComponents(e) ==
    e.event_info.trigger \o e.event_info.modifiers
        \o e.event_info.agents \o e.event_info.comps

\* the insertion goes before an element of equal key
RECURSIVE InsertByIndex_Unstable(_, _)
InsertByIndex_Unstable(sorted, x) ==
    IF sorted = <<>> THEN <<x>>
    ELSE IF x[2] <= sorted[1][2] THEN <<x>> \o sorted
    ELSE <<sorted[1]>> \o InsertByIndex_Unstable(Tail(sorted), x)

\* one insertion of list.sort(key=lambda x: x[1]): after every element whose
\* key is not larger, so that equal keys keep their order
RECURSIVE InsertByIndex(_, _)
InsertByIndex(sorted, x) ==
    IF sorted = <<>> THEN <<x>>
    ELSE IF x[2] < sorted[1][2] THEN <<x>> \o sorted
    ELSE <<sorted[1]>> \o InsertByIndex(Tail(sorted), x)

\* list.sort(key=lambda x: x[1], reverse=False)
RECURSIVE SortByIndex(_)
SortByIndex(xs) ==
    IF xs = <<>> THEN <<>>
    ELSE InsertByIndex(SortByIndex(SubSeq(xs, 1, Len(xs) - 1)), xs[Len(xs)])

\* [comp[0].strip() for comp in all_components if comp[0].strip()]
StrippedTexts(comps) ==
    NonEmpty([k \in 1..Len(comps) |-> Strip(comps[k][1])])

\* Event.__str__
EventStr(e) == Join(SP, StrippedTexts(SortByIndex(AllComponents(e))))

(***************************************************************************)
(* src/event_extraction/event_extract.py : serialisation of a story.       *)
(***************************************************************************)
\* EventExtractor.__format_events
FormatEvents(events_list) ==
    IF events_list = <<>> THEN <<>>
    ELSE EVENT_START \o SP
         \o Join(SP \o EVENT_SEPERATOR \o SP,
                 [k \in 1..Len(events_list) |-> EventStr(events_list[k])])
         \o SP \o EVENT_END

\* EventExtractor.__clear_special_tags_text : one str.replace per tag, in turn
RECURSIVE RemoveTags(_, _)
RemoveTags(text, tags) ==
    IF tags = <<>> THEN text
    ELSE RemoveTags(ReplaceAll(text, tags[1]), Tail(tags))

ClearSpecialTagsText(text) == Strip(RemoveTags(text, CHAR_TAGS))

(***************************************************************************)
(* src/graph_construction/event_build.py : the parse of one serialised     *)
(* story at the head of build_graph's loop.                                *)
(***************************************************************************)
\* [e.strip() for e in seq.split(EVENT_SEPERATOR)]
SplitEvents(seq) ==
    LET parts == Split(seq, EVENT_SEPERATOR)
    IN  [k \in 1..Len(parts) |-> Strip(parts[k])]

\* the start marker is left in place
StripStart_Skip(events) == events

\* events[0] without a leading EVENT_START
StripStart(events) ==
    IF events # <<>> /\ StartsWith(events[1], EVENT_START)
    THEN [events EXCEPT ![1] = Strip(ReplaceFirst(events[1], EVENT_START))]
    ELSE events

\* events[-1] without a trailing EVENT_END
StripEnd(events) ==
    IF events # <<>> /\ EndsWith(events[Len(events)], EVENT_END)
    THEN [events EXCEPT ![Len(events)] =
             Strip(ReplaceFirst(events[Len(events)], EVENT_END))]
    ELSE events

ParseStory(seq) == NonEmpty(StripEnd(StripStart(SplitEvents(seq))))

(***************************************************************************)
(* networkx graph held in self.graph: node -> frequency attribute, and the *)
(* adjacency <<u, v>> -> weight attribute.  An undirected nx.Graph keeps   *)
(* one attribute dict under both adj[u][v] and adj[v][u].                  *)
(***************************************************************************)
EmptyFn == [x \in {} |-> 0]

\* a node that add_edge created itself carries no frequency attribute
NoAttr == -1

\* nx.DiGraph() / nx.Graph()
NewGraph(kind) == [kind |-> kind, node |-> EmptyFn, adj |-> EmptyFn]

NumberOfNodes(g) == Cardinality(DOMAIN g.node)

\* `event in self.graph`
HasNode(g, n) == n \in DOMAIN g.node

\* graph.add_node(n, frequency=f)
AddNode(g, n, f) == [g EXCEPT !.node = (n :> f) @@ g.node]

\* `= 1` written for `+= 1`
IncFrequency_Assign(g, n) == [g EXCEPT !.node[n] = 1]

\* graph.nodes[n]['frequency'] += 1
IncFrequency(g, n) == [g EXCEPT !.node[n] = @ + 1]

\* every graph kept as a directed one
EdgeKeys_Directed(kind, u, v) == {<<u, v>>}

\* the adjacency entries one edge occupies
EdgeKeys(kind, u, v) ==
    IF kind = "DiGraph" THEN {<<u, v>>} ELSE {<<u, v>>, <<v, u>>}

\* graph.has_edge(u, v)
HasEdge(g, u, v) == <<u, v>> \in DOMAIN g.adj

\* the edge added from v to u
AddEdge_Reversed(g, u, v, w) ==
    [g EXCEPT !.adj = [k \in EdgeKeys(g.kind, v, u) |-> w] @@ g.adj,
              !.node = g.node @@ [n \in {u, v} |-> NoAttr]]

\* graph.add_edge(u, v, weight=w): missing endpoints are created bare
AddEdge(g, u, v, w) ==
    [g EXCEPT !.adj = [k \in EdgeKeys(g.kind, u, v) |-> w] @@ g.adj,
              !.node = g.node @@ [n \in {u, v} |-> NoAttr]]

\* graph[u][v]['weight'] += 1
IncWeight(g, u, v) ==
    [g EXCEPT !.adj = [k \in DOMAIN g.adj |->
                          IF k \in EdgeKeys(g.kind, u, v)
                          THEN g.adj[k] + 1 ELSE g.adj[k]]]

(***************************************************************************)
(* config/dir.py : the names the module defines.  event_build.py reads     *)
(* dir.GRAPH_DIR; reading a name the module lacks raises AttributeError.   *)
(***************************************************************************)
DirAttrs ==
    {"Path", "BASE_DIR", "DATA_DIR", "ROCSTORIES_DIR", "PROCESSED_DATA_DIR",
     "RAW_DATA_DIR", "GRAPH_DATA_DIR", "update_directories"}

HasDirAttr(name) == name \in DirAttrs

EXT_GPICKLE == <<".", "g", "p", "i", "c", "k", "l", "e">>
EXT_GEXF == <<".", "g", "e", "x", "f">>

\* pathlib: filepath.suffix == ext
SuffixIs(filename, ext) == EndsWith(filename, ext) /\ Len(filename) > Len(ext)

\* `if not filename.endswith(ext): filename += ext`
WithExt(filename, ext) ==
    IF EndsWith(filename, ext) THEN filename ELSE filename \o ext

(***************************************************************************)
(* State.                                                                  *)
(***************************************************************************)
VARIABLES
    graph_type, \* the argument EventGraphBuilder was constructed with
    graph,      \* EventGraphBuilder.graph
    files,      \* the files under the graph directory: name -> content
    pc,         \* position of the running build_graph call, or "idle";
                \* "none" when __init__ raised and there is no builder
    df,         \* build_graph's frame: the event column, a sequence of str
    si,         \* build_graph's frame: position of the outer loop in df
    events,     \* build_graph's frame: the events of the current story
    ei,         \* build_graph's frame: position of the inner loop in events
    last,       \* the method called last
    err,        \* the exception the last call raised, or "none"
    ret,        \* the value the last call returned: <<>> is None
    built,      \* a build_graph call has returned normally
    inp,        \* EventExtractor: the argument of the call under way
    step,       \* EventExtractor: position of the call under way
    pos,        \* EventExtractor: position of the loop over the docs (1-based)
    items,      \* EventExtractor: the list being built or returned
    outstr,     \* EventExtractor: the str returned
    story_df,   \* extract_events_from_story_df: the arguments df and is_save
    all_sentences,  \* its list of the sentences of all stories, as docs
    story_indices,  \* its list of the index label of each sentence
    story_events,   \* its defaultdict: index label -> list of events
    events_col, \* df['events'] once assigned: <<>> before, <<column>> after
    saved       \* the column handed to to_csv: <<>> if none was

builderVars ==
    <<graph, files, pc, df, si, events, ei, last, err, ret, built, graph_type>>

dfVars ==
    <<story_df, all_sentences, story_indices, story_events, events_col, saved>>

textVars == <<inp, step, pos, items, outstr, dfVars>>

vars == <<builderVars, textVars>>

buildVars == <<df, si, events, ei>>

\* the frame of a build_graph call that returned stays readable until the
\* next call of a method; it is gone then
NoFrame ==
    /\ df' = <<>>
    /\ si' = 0
    /\ events' = <<>>
    /\ ei' = 0

(***************************************************************************)
(* Inputs of the builder.                                                  *)
(***************************************************************************)
SeqsUpTo(S, n) == UNION {[1..k -> S] : k \in 0..n}

EvA == <<"A">>
EvB == <<"B">>
EvC == <<"C">>

\* an event whose only component is its trigger
TriggerOnly(text) ==
    Event(text, [trigger |-> <<<<text, 0>>>>, modifiers |-> <<>>,
                 agents |-> <<>>, comps |-> <<>>])

Serialise(names) == FormatEvents([k \in 1..Len(names) |-> TriggerOnly(names[k])])

\* the stories the formatter writes for event lists over A and B
FormattedStories == {Serialise(names) : names \in SeqsUpTo({EvA, EvB}, MaxEvents)}

\* rows as a text file can hold them: no markers, blank segments, blank row
RawStories ==
    {SP,
     EvA \o SP \o EVENT_SEPERATOR \o SP \o EvB,
     EVENT_START \o SP \o EVENT_SEPERATOR \o SP \o EvA \o SP \o EVENT_SEPERATOR
         \o SP \o SP \o EVENT_END,
     EVENT_START \o SP \o EVENT_END}

\* stories [A,B,A] and [A,C]
ScenarioDf == <<Serialise(<<EvA, EvB, EvA>>), Serialise(<<EvA, EvC>>)>>

DfInputs ==
    SeqsUpTo(FormattedStories, MaxStories)
        \cup {<<r>> : r \in RawStories}
        \cup {<<r, Serialise(<<EvB, EvB>>)>> : r \in RawStories}
        \cup {ScenarioDf}

Filenames == {<<"g">>, <<"g">> \o EXT_GPICKLE, <<"g">> \o EXT_GEXF}

GraphKinds == {"DiGraph", "Graph"}

\* values of the graph_type argument
GraphTypes == GraphKinds \cup {"MultiGraph"}

\* self.graph of a builder that was not constructed
NoGraph == [kind |-> "none", node |-> EmptyFn, adj |-> EmptyFn]

\* __init__: <<exception, self.graph>>
Construct(t) ==
    IF t \notin {"DiGraph", "Graph"} THEN <<"ValueError", NoGraph>>
    ELSE <<"none", IF t = "DiGraph" THEN NewGraph("DiGraph") ELSE NewGraph("Graph")>>

\* a graph written earlier: the story C C C
StoredGraph ==
    [kind |-> "DiGraph", node |-> (EvC :> 3), adj |-> (<<EvC, EvC>> :> 2)]

\* the graph directory as a builder can find it: empty, or holding one file
\* of each format
StoredFiles ==
    ((<<"g">> \o EXT_GPICKLE) :> [format |-> "pickle", graph |-> StoredGraph])
        @@ ((<<"g">> \o EXT_GEXF) :> [format |-> "gexf", graph |-> StoredGraph])

\* no call of the extractor is under way
NoInput == [kind |-> "none", docs |-> <<>>, events |-> <<>>, text |-> <<>>]

\* no DataFrame was handed over
NoDf == [index |-> <<>>, target |-> <<>>, is_save |-> FALSE]

NoDfCall ==
    /\ story_df = NoDf
    /\ all_sentences = <<>>
    /\ story_indices = <<>>
    /\ story_events = EmptyFn
    /\ events_col = <<>>
    /\ saved = <<>>

(***************************************************************************)
(* EventGraphBuilder.__init__ has run: it has returned a builder, or it    *)
(* has raised and there is no builder to call.                             *)
(***************************************************************************)
Init ==
    /\ graph_type \in GraphTypes
    /\ graph = Construct(graph_type)[2]
    /\ err = Construct(graph_type)[1]
    /\ pc = IF err = "none" THEN "idle" ELSE "none"
    /\ files \in {EmptyFn, StoredFiles}
    /\ df = <<>>
    /\ si = 0
    /\ events = <<>>
    /\ ei = 0
    /\ last = "__init__"
    /\ ret = <<>>
    /\ built = FALSE
    /\ inp = NoInput
    /\ step = "none"
    /\ pos = 0
    /\ items = <<>>
    /\ outstr = <<>>
    /\ NoDfCall

(***************************************************************************)
(* build_graph                                                             *)
(***************************************************************************)
\* the guard written on the edges
AlreadyBuilt_Edges(g) == DOMAIN g.adj # {}

\* the build-once guard: `if self.graph.number_of_nodes() > 0`
AlreadyBuilt(g) == NumberOfNodes(g) > 0

\* the guard raises, before df is read
BuildRejected ==
    /\ pc = "idle"
    /\ AlreadyBuilt(graph)
    /\ last' = "build_graph"
    /\ err' = "ValueError"
    /\ ret' = <<>>
    /\ NoFrame
    /\ UNCHANGED <<graph, files, pc, built, graph_type>>
    /\ UNCHANGED textVars

\* the guard passes: the loop over df[event_col] starts
BuildStart ==
    /\ pc = "idle"
    /\ ~AlreadyBuilt(graph)
    /\ last' = "build_graph"
    /\ err' = "none"
    /\ ret' = <<>>
    /\ df' \in DfInputs
    /\ si' = 1
    /\ events' = <<>>
    /\ ei' = 0
    /\ pc' = "loop"
    /\ UNCHANGED <<graph, files, built, graph_type>>
    /\ UNCHANGED textVars

\* head of the outer loop: parse the next story; `continue` when no event is left
StoryNext ==
    /\ pc = "loop"
    /\ si <= Len(df)
    /\ LET evs == ParseStory(df[si])
       IN  /\ events' = evs
           /\ IF evs = <<>>
              THEN /\ si' = si + 1
                   /\ ei' = 0
                   /\ pc' = "loop"
              ELSE /\ si' = si
                   /\ ei' = 1
                   /\ pc' = "node"
    /\ UNCHANGED <<graph, files, df, last, err, ret, built, graph_type>>
    /\ UNCHANGED textVars

\* the outer loop is exhausted: build_graph returns None
BuildReturn ==
    /\ pc = "loop"
    /\ si > Len(df)
    /\ pc' = "idle"
    /\ built' = TRUE
    /\ UNCHANGED <<graph, files, buildVars, last, err, ret, graph_type>>
    /\ UNCHANGED textVars

\* `if event not in self.graph: add_node(event, frequency=0)`
NodeStep ==
    /\ pc = "node"
    /\ graph' = IF HasNode(graph, events[ei]) THEN graph
                ELSE AddNode(graph, events[ei], 0)
    /\ pc' = "freq"
    /\ UNCHANGED <<files, buildVars, last, err, ret, built, graph_type>>
    /\ UNCHANGED textVars

\* the end of one iteration of the inner loop
Advance ==
    IF ei < Len(events)
    THEN /\ ei' = ei + 1
         /\ si' = si
         /\ pc' = "node"
    ELSE /\ ei' = 0
         /\ si' = si + 1
         /\ pc' = "loop"

\* `self.graph.nodes[event]['frequency'] += 1`, then `if i > 0`
FreqStep ==
    /\ pc = "freq"
    /\ graph' = IncFrequency(graph, events[ei])
    /\ IF ei > 1
       THEN /\ pc' = "edge"
            /\ UNCHANGED <<si, ei>>
       ELSE Advance
    /\ UNCHANGED <<files, df, events, last, err, ret, built, graph_type>>
    /\ UNCHANGED textVars

\* an edge that exists is left as it is
UpdateEdge_NoIncrement(g, prev_event, event) ==
    IF HasEdge(g, prev_event, event) THEN g
    ELSE AddEdge(g, prev_event, event, 1)

\* a new edge starts at weight 0
UpdateEdge_WeightZero(g, prev_event, event) ==
    IF HasEdge(g, prev_event, event)
    THEN IncWeight(g, prev_event, event)
    ELSE AddEdge(g, prev_event, event, 0)

\* the edge from events[i - 1]: weight += 1, or add_edge(..., weight=1)
UpdateEdge(g, prev_event, event) ==
    IF HasEdge(g, prev_event, event)
    THEN IncWeight(g, prev_event, event)
    ELSE AddEdge(g, prev_event, event, 1)

EdgeStep ==
    /\ pc = "edge"
    /\ graph' = UpdateEdge(graph, events[ei - 1], events[ei])
    /\ Advance
    /\ UNCHANGED <<files, df, events, last, err, ret, built, graph_type>>
    /\ UNCHANGED textVars

(***************************************************************************)
(* get_graph, save_graph_*, load_graph_*                                   *)
(***************************************************************************)
GetGraph ==
    /\ pc = "idle"
    /\ last' = "get_graph"
    /\ IF NumberOfNodes(graph) = 0
       THEN err' = "ValueError" /\ ret' = <<>>
       ELSE err' = "none" /\ ret' = <<graph>>
    /\ NoFrame
    /\ UNCHANGED <<graph, files, pc, built, graph_type>>
    /\ UNCHANGED textVars

\* the outcome of a save: <<exception, files afterwards>>
SaveOutcome(g, fs, filename, ext, fmt) ==
    IF ~HasDirAttr("GRAPH_DIR") THEN <<"AttributeError", fs>>
    ELSE IF NumberOfNodes(g) = 0 THEN <<"ValueError", fs>>
    ELSE <<"none", (WithExt(filename, ext) :> [format |-> fmt, graph |-> g]) @@ fs>>

SaveGraphPickle(filename) ==
    /\ pc = "idle"
    /\ last' = "save_graph_pickle"
    /\ LET out == SaveOutcome(graph, files, filename, EXT_GPICKLE, "pickle")
       IN  err' = out[1] /\ files' = out[2]
    /\ ret' = <<>>
    /\ NoFrame
    /\ UNCHANGED <<graph, pc, built, graph_type>>
    /\ UNCHANGED textVars

SaveGraphGexf(filename) ==
    /\ pc = "idle"
    /\ last' = "save_graph_gexf"
    /\ LET out == SaveOutcome(graph, files, filename, EXT_GEXF, "gexf")
       IN  err' = out[1] /\ files' = out[2]
    /\ ret' = <<>>
    /\ NoFrame
    /\ UNCHANGED <<graph, pc, built, graph_type>>
    /\ UNCHANGED textVars

\* the outcome of a load: <<exception, graph afterwards>>
LoadOutcome(g, fs, filename, ext) ==
    IF ~HasDirAttr("GRAPH_DIR") THEN <<"AttributeError", g>>
    ELSE IF filename \notin DOMAIN fs THEN <<"FileNotFoundError", g>>
    ELSE IF ~SuffixIs(filename, ext) THEN <<"ValueError", g>>
    ELSE <<"none", fs[filename].graph>>

LoadGraphPickle(filename) ==
    /\ pc = "idle"
    /\ last' = "load_graph_pickle"
    /\ LET out == LoadOutcome(graph, files, filename, EXT_GPICKLE)
       IN  /\ err' = out[1]
           /\ graph' = out[2]
           /\ ret' = IF out[1] = "none" THEN <<out[2]>> ELSE <<>>
    /\ NoFrame
    /\ UNCHANGED <<files, pc, built, graph_type>>
    /\ UNCHANGED textVars

LoadGraphGexf(filename) ==
    /\ pc = "idle"
    /\ last' = "load_graph_gexf"
    /\ LET out == LoadOutcome(graph, files, filename, EXT_GEXF)
       IN  /\ err' = out[1]
           /\ graph' = out[2]
           /\ ret' = IF out[1] = "none" THEN <<out[2]>> ELSE <<>>
    /\ NoFrame
    /\ UNCHANGED <<files, pc, built, graph_type>>
    /\ UNCHANGED textVars

Next ==
    \/ BuildRejected
    \/ BuildStart
    \/ StoryNext
    \/ BuildReturn
    \/ NodeStep
    \/ FreqStep
    \/ EdgeStep
    \/ GetGraph
    \/ \E f \in Filenames : SaveGraphPickle(f)
    \/ \E f \in Filenames : SaveGraphGexf(f)
    \/ \E f \in Filenames : LoadGraphPickle(f)
    \/ \E f \in Filenames : LoadGraphGexf(f)

Spec == Init /\ [][Next]_vars

(***************************************************************************)
(* Reading a graph.                                                        *)
(***************************************************************************)
RECURSIVE SumOver(_, _)
SumOver(f, S) ==
    IF S = {} THEN 0
    ELSE LET x == CHOOSE y \in S : TRUE
         IN  f[x] + SumOver(f, S \ {x})

\* sum of the frequency attributes
TotalFrequency(g) == SumOver(g.node, DOMAIN g.node)

\* sum of the weight attributes, each edge once: an undirected edge that is
\* no self-loop occupies two adjacency entries
TotalWeight(g) ==
    IF g.kind = "DiGraph" THEN SumOver(g.adj, DOMAIN g.adj)
    ELSE (SumOver(g.adj, DOMAIN g.adj)
          + SumOver(g.adj, {k \in DOMAIN g.adj : k[1] = k[2]})) \div 2

\* the event lists of the rows of d
Parsed(d) == [s \in 1..Len(d) |-> ParseStory(d[s])]

\* positions <<s, i>> of the events, and of the events that have a predecessor
Occurrences(p) == UNION {{<<s, i>> : i \in 1..Len(p[s])} : s \in 1..Len(p)}

Transitions(p) == {q \in Occurrences(p) : q[2] >= 2}

\* the directed aggregate of d: counts of occurrences and of transitions
ReferenceGraph(d) ==
    LET p == Parsed(d)
        occ == Occurrences(p)
        tr == Transitions(p)
        names == {p[q[1]][q[2]] : q \in occ}
        pairs == {<<p[q[1]][q[2] - 1], p[q[1]][q[2]]>> : q \in tr}
    IN  [kind |-> "DiGraph",
         node |-> [e \in names |->
                      Cardinality({q \in occ : p[q[1]][q[2]] = e})],
         adj  |-> [k \in pairs |->
                      Cardinality({q \in tr :
                          <<p[q[1]][q[2] - 1], p[q[1]][q[2]]>> = k})]]

\* a call of build_graph in state pc = "idle"
BuildCall == BuildRejected \/ BuildStart

\* build_graph has returned normally and nothing was called since
BuildDone == pc = "idle" /\ last = "build_graph" /\ err = "none"

(***************************************************************************)
(* C1                                                                      *)
(***************************************************************************)
\* C1 as stated: whatever the two inputs, a build_graph call made after a
\* build_graph call has returned raises ValueError and leaves the graph as
\* it was.
C1_SecondBuildAlwaysFails ==
    [][(built /\ BuildCall)
         => (err' = "ValueError" /\ pc' = "idle" /\ graph' = graph)]_vars

\* C1 amended: a build_graph call made after a build_graph call has returned
\* and left at least one node raises ValueError and leaves the graph (nodes,
\* frequencies, edges, weights) as it was.
C1_BuildOnce ==
    [][(built /\ NumberOfNodes(graph) > 0 /\ BuildCall)
         => (err' = "ValueError" /\ pc' = "idle" /\ graph' = graph)]_vars

\* a second build_graph call has been rejected on a built graph
C1_Witness ==
    /\ built
    /\ pc = "idle"
    /\ last = "build_graph"
    /\ err = "ValueError"
    /\ NumberOfNodes(graph) > 0

(***************************************************************************)
(* C2                                                                      *)
(***************************************************************************)
ScenarioGraph ==
    [kind |-> "DiGraph",
     node |-> (EvA :> 3) @@ (EvB :> 1) @@ (EvC :> 1),
     adj  |-> (<<EvA, EvB>> :> 1) @@ (<<EvB, EvA>> :> 1) @@ (<<EvA, EvC>> :> 1)]

\* C2: when build_graph has returned normally on a directed builder, the
\* graph is the aggregate of the input: one node per distinct event with its
\* number of occurrences, one edge per pair of consecutive events with the
\* number of such transitions; stories [A,B,A], [A,C] give A:3 B:1 C:1 and
\* (A,B):1 (B,A):1 (A,C):1.
C2_GraphIsAggregate ==
    (BuildDone /\ graph.kind = "DiGraph")
        => /\ graph = ReferenceGraph(df)
           /\ df = ScenarioDf => graph = ScenarioGraph

\* the scenario has been built on a directed builder
C2_Witness ==
    /\ BuildDone
    /\ graph.kind = "DiGraph"
    /\ df = ScenarioDf

(***************************************************************************)
(* C3                                                                      *)
(***************************************************************************)
\* number of events of the rows before position n
RECURSIVE EventsBefore(_, _)
EventsBefore(p, n) ==
    IF n <= 1 THEN 0 ELSE Len(p[n - 1]) + EventsBefore(p, n - 1)

\* number of transitions of the rows before position n
RECURSIVE TransitionsBefore(_, _)
TransitionsBefore(p, n) ==
    IF n <= 1 THEN 0
    ELSE (IF Len(p[n - 1]) >= 1 THEN Len(p[n - 1]) - 1 ELSE 0)
         + TransitionsBefore(p, n - 1)

\* C3: between two stories of a build the sum of the frequencies is the sum
\* of the k of the stories done, the sum of the weights is the sum of their
\* max(k - 1, 0), and the nodes are the events of those stories: each story
\* adds k and max(k - 1, 0), a story with no event adds nothing.
C3_StoryAccounting ==
    pc = "loop"
        => LET p == Parsed(df)
           IN  /\ TotalFrequency(graph) = EventsBefore(p, si)
               /\ TotalWeight(graph) = TransitionsBefore(p, si)
               /\ DOMAIN graph.node =
                      {p[q[1]][q[2]] : q \in {o \in Occurrences(p) : o[1] < si}}

\* a story of two events and a story with no event have both been processed
C3_Witness ==
    /\ pc = "loop"
    /\ si = 3
    /\ Len(ParseStory(df[1])) = 0
    /\ Len(ParseStory(df[2])) = 2
    /\ df[1] # <<>>
    /\ TotalWeight(graph) = 1

(***************************************************************************)
(* C5                                                                      *)
(***************************************************************************)
\* C5: the formatter writes the empty list as the empty string, the empty
\* string parses to the empty list, and the build step that meets an empty
\* row goes on to the next row with the graph as it was.
C5_EmptyStory ==
    [][(pc = "loop" /\ si <= Len(df) /\ df[si] = <<>>)
         => /\ FormatEvents(<<>>) = df[si]
            /\ ParseStory(df[si]) = <<>>
            /\ graph' = graph
            /\ pc' = "loop"
            /\ si' = si + 1]_vars

\* an empty row has been passed during a build that had already made nodes
C5_Witness ==
    /\ pc = "loop"
    /\ si = 3
    /\ df[2] = <<>>
    /\ NumberOfNodes(graph) > 0

(***************************************************************************)
(* C7                                                                      *)
(***************************************************************************)
Readers == {"get_graph", "save_graph_pickle", "save_graph_gexf"}

\* C7 as stated: get_graph and both saves raise ValueError while no build
\* (or load; none succeeds here) has succeeded, and succeed once one has,
\* get_graph returning the builder's graph.
C7_EmptyGraphCondition ==
    (pc = "idle" /\ last \in Readers)
        => /\ ~built => err = "ValueError"
           /\ built =>
                  /\ err = "none"
                  /\ last = "get_graph" => ret = <<graph>>

(***************************************************************************)
(* C8                                                                      *)
(***************************************************************************)
\* C8: in every state, also inside a build, every edge joins two nodes whose
\* frequency is at least 1 and has a weight of at least 1.
C8_EdgeEndpoints ==
    \A k \in DOMAIN graph.adj :
        /\ k[1] \in DOMAIN graph.node
        /\ k[2] \in DOMAIN graph.node
        /\ graph.node[k[1]] >= 1
        /\ graph.node[k[2]] >= 1
        /\ graph.adj[k] >= 1

\* inside a build: an edge exists and a node just created has frequency 0
C8_Witness ==
    /\ pc = "freq"
    /\ DOMAIN graph.adj # {}
    /\ graph.node[events[ei]] = 0

(***************************************************************************)
(* C11, C12, C13                                                           *)
(***************************************************************************)
\* a call of load_graph_pickle(f) or load_graph_gexf(f) in state pc = "idle"
LoadCall(f) == LoadGraphPickle(f) \/ LoadGraphGexf(f)

\* the call loads the file in the format its name carries
RightFormat(f) ==
    \/ LoadGraphPickle(f) /\ SuffixIs(f, EXT_GPICKLE)
    \/ LoadGraphGexf(f) /\ SuffixIs(f, EXT_GEXF)

\* C11 as stated: a load, in either format, of a file that exists under the
\* name of its format, made on a builder whose graph holds nodes, succeeds,
\* and the builder's graph is then the graph of the file, nothing else.
C11_LoadReplaces ==
    [][\A f \in Filenames :
         (NumberOfNodes(graph) > 0 /\ f \in DOMAIN files /\ RightFormat(f))
             => (err' = "none" /\ graph' = files[f].graph)]_vars

\* C12 as stated: a load, in either format, raises FileNotFoundError when
\* the file does not exist and ValueError when it exists under the name of
\* another format, and the builder's graph is then what it was.
C12_LoadErrors ==
    [][\A f \in Filenames :
         /\ (LoadCall(f) /\ f \notin DOMAIN files)
                => (err' = "FileNotFoundError" /\ graph' = graph)
         /\ (LoadCall(f) /\ f \in DOMAIN files /\ ~RightFormat(f))
                => (err' = "ValueError" /\ graph' = graph)]_vars

\* C13 as stated: save_graph_pickle(f) on a graph that holds nodes succeeds,
\* and load_graph_pickle(f) made next succeeds and gives that graph: kind,
\* nodes, frequencies, edges, weights.
C13_PickleRoundTrip ==
    [][\A f \in Filenames :
         (NumberOfNodes(graph) > 0 /\ SaveGraphPickle(f))
             => /\ err' = "none"
                /\ LoadOutcome(graph', files', f, EXT_GPICKLE) = <<"none", graph>>]_vars

(***************************************************************************)
(* C17                                                                     *)
(***************************************************************************)
\* the positions <<s, i>> whose per-event step is complete: the stories
\* before si, and inside the inner loop the events of story si before ei
Processed(p) ==
    {q \in Occurrences(p) :
        \/ q[1] < si
        \/ pc = "node" /\ q[1] = si /\ q[2] < ei}

\* sum of the weights of the edges that end in n
InWeight(g, n) == SumOver(g.adj, {k \in DOMAIN g.adj : k[2] = n})

\* C17: in a directed build, between two per-event steps, the nodes are the
\* events of the positions processed so far in story order then event order;
\* the frequency of each node is the weight of its incoming edges plus the
\* number of stories started that begin with it; the total weight is the
\* total frequency minus the number of stories started; and each processed
\* position after the first of its story has the edge from its predecessor.
C17_NodeEdgePaired ==
    (graph.kind = "DiGraph" /\ pc \in {"node", "loop"})
        => LET p == Parsed(df)
               done == Processed(p)
               firsts == {q \in done : q[2] = 1}
           IN  /\ DOMAIN graph.node = {p[q[1]][q[2]] : q \in done}
               /\ \A n \in DOMAIN graph.node :
                      graph.node[n] =
                          InWeight(graph, n)
                              + Cardinality({q \in firsts : p[q[1]][1] = n})
               /\ TotalWeight(graph) =
                      TotalFrequency(graph) - Cardinality(firsts)
               /\ \A q \in done :
                      q[2] > 1 => HasEdge(graph, p[q[1]][q[2] - 1], p[q[1]][q[2]])

\* the stories A B A and then A C, up to the A of the second: A has been
\* counted three times, twice as the first event and once after B
C17_Witness ==
    /\ graph.kind = "DiGraph"
    /\ pc = "node"
    /\ df = ScenarioDf
    /\ si = 2
    /\ ei = 2
    /\ graph.node[EvA] = 3
    /\ InWeight(graph, EvA) = 1

(***************************************************************************)
(* C18                                                                     *)
(***************************************************************************)
\* a step of build_graph
BuildStep ==
    \/ BuildCall
    \/ StoryNext
    \/ NodeStep
    \/ FreqStep
    \/ EdgeStep
    \/ BuildReturn

\* number of positions of p where a is followed by b
Consecutive(p, a, b) ==
    Cardinality({q \in Transitions(p) :
                    p[q[1]][q[2] - 1] = a /\ p[q[1]][q[2]] = b})

\* number of positions of p where a and b follow each other, in either order
ConsecutiveEitherOrder(p, a, b) ==
    Cardinality({q \in Transitions(p) :
                    {<<p[q[1]][q[2] - 1], p[q[1]][q[2]]>>} \subseteq {<<a, b>>, <<b, a>>}})

\* the graph has the edge u -> v exactly when n > 0, and then with weight n
EdgeCounts(g, u, v, n) ==
    IF n = 0 THEN ~HasEdge(g, u, v)
    ELSE HasEdge(g, u, v) /\ g.adj[<<u, v>>] = n

\* what __init__ leaves for the graph_type it was given
Constructed ==
    last = "__init__"
        => IF graph_type \in {"DiGraph", "Graph"}
           THEN err = "none" /\ pc = "idle" /\ graph = NewGraph(graph_type)
           ELSE err = "ValueError" /\ pc = "none" /\ graph = NoGraph

\* the edges of a graph that build_graph has just returned
EdgesOfKind ==
    BuildDone
        => LET p == Parsed(df)
               names == DOMAIN graph.node
           IN  \A a, b \in names :
                   IF graph.kind = "Graph"
                   THEN /\ EdgeCounts(graph, a, b, ConsecutiveEitherOrder(p, a, b))
                        /\ EdgeCounts(graph, b, a, ConsecutiveEitherOrder(p, a, b))
                   ELSE /\ EdgeCounts(graph, a, b, Consecutive(p, a, b))
                        /\ EdgeCounts(graph, b, a, Consecutive(p, b, a))

\* C18: __init__ accepts 'DiGraph' and 'Graph', giving an empty graph of
\* that kind, and raises ValueError for anything else; no step of build_graph
\* changes the kind; after a build the undirected graph has for a, b one
\* edge, read from either end, whose weight counts a b and b a together,
\* and the directed graph has an edge a -> b counting a b and an edge
\* b -> a counting b a.
C18_KindAndEdges ==
    /\ [](Constructed /\ EdgesOfKind)
    /\ [][BuildStep => (graph'.kind = graph.kind /\ graph.kind = graph_type)]_vars

\* the stories A B A and A C built undirected: A B and B A are one edge
C18_Witness ==
    /\ graph_type = "Graph"
    /\ graph.kind = "Graph"
    /\ BuildDone
    /\ df = ScenarioDf
    /\ graph.adj[<<EvA, EvB>>] = 2
    /\ graph.adj[<<EvB, EvA>>] = 2
    /\ Cardinality(DOMAIN graph.adj) = 4

(***************************************************************************)
(* config/event_tags.py                                                    *)
(***************************************************************************)
subject_tags == {"csubj", "csubjpass", "nsubj", "nsubjpass"}
trigger_tags == {"ROOT"}
modifier_tags == {"neg", "prt", "advmod", "amod"}
agent_tags == {"agent"} \cup subject_tags
comp_tags ==
    {"dobj", "acomp", "ccomp", "xcomp", "oprd", "attr", "pobj", "dative",
     "npadvmod"}

(***************************************************************************)
(* src/event_extraction/event_extract.py : extraction.  A doc is the       *)
(* parser's sequence of tokens [text, dep, head]: token.text, token.dep_   *)
(* and token.head.text; token.i is the position in the doc, from 0.        *)
(***************************************************************************)
Token(t, dep, head) == [text |-> t, dep |-> dep, head |-> head]

\* the scan keeps the trigger token met last
RECURSIVE TriggerFrom_Last(_, _)
TriggerFrom_Last(doc, k) ==
    IF k > Len(doc) THEN <<>>
    ELSE LET rest == TriggerFrom_Last(doc, k + 1)
         IN  IF rest # <<>> THEN rest
             ELSE IF doc[k].dep \in trigger_tags THEN <<<<doc[k].text, k - 1>>>>
             ELSE <<>>

\* `for token in doc: if token.dep_ in trigger_tags: return (text, i)` from
\* position k on; <<>> is None, <<info>> is the tuple
RECURSIVE TriggerFrom(_, _)
TriggerFrom(doc, k) ==
    IF k > Len(doc) THEN <<>>
    ELSE IF doc[k].dep \in trigger_tags THEN <<<<doc[k].text, k - 1>>>>
    ELSE TriggerFrom(doc, k + 1)

GetTriggerInfo_Last(doc) == TriggerFrom_Last(doc, 1)

\* EventExtractor.__get_trigger_info
GetTriggerInfo(doc) == TriggerFrom(doc, 1)

\* the test of the head text left out
RECURSIVE Collect_AnyHead(_, _, _, _)
Collect_AnyHead(doc, k, trigger, tags) ==
    IF k > Len(doc) THEN <<>>
    ELSE (IF doc[k].dep \in tags
          THEN <<<<doc[k].text, k - 1>>>> ELSE <<>>)
         \o Collect_AnyHead(doc, k + 1, trigger, tags)

\* the (text, i) of the tokens of doc, in order, whose head text is the
\* trigger and whose label is in tags
RECURSIVE Collect(_, _, _, _)
Collect(doc, k, trigger, tags) ==
    IF k > Len(doc) THEN <<>>
    ELSE (IF doc[k].head = trigger /\ doc[k].dep \in tags
          THEN <<<<doc[k].text, k - 1>>>> ELSE <<>>)
         \o Collect(doc, k + 1, trigger, tags)

\* EventExtractor.__get_args : the if / elif / elif over the three tag lists
GetArgs(doc, trigger) ==
    [modifiers |-> Collect(doc, 1, trigger, modifier_tags),
     agents    |-> Collect(doc, 1, trigger, agent_tags \ modifier_tags),
     comps     |-> Collect(doc, 1, trigger,
                           comp_tags \ (modifier_tags \cup agent_tags))]

\* the Event built from a doc that has a trigger
BuildEvent(doc, trigger_info) ==
    LET args == GetArgs(doc, trigger_info[1])
    IN  Event(trigger_info[1],
              [trigger   |-> <<trigger_info>>,
               modifiers |-> args.modifiers,
               agents    |-> args.agents,
               comps     |-> args.comps])

\* extract_event_from_text on the doc of the text: <<>> is None
ExtractEventFromText(doc) ==
    LET trigger_info == GetTriggerInfo(doc)
    IN  IF trigger_info = <<>> THEN <<>>
        ELSE <<BuildEvent(doc, trigger_info[1])>>

(***************************************************************************)
(* Inputs of the extractor and the formatter.                              *)
(***************************************************************************)
TokX == <<"x">>
TokY == <<"y">>
TokThe == <<"T", "h", "e">>
TokCat == <<"c", "a", "t">>
TokSleeps == <<"s", "l", "e", "e", "p", "s">>

TokenTexts == {TokX, TokY}
TokenDeps == {"ROOT", "neg", "nsubj", "dobj", "det"}

Tokens == {Token(t, d, h) : t \in TokenTexts, d \in TokenDeps, h \in TokenTexts}

\* "The cat sleeps"
ScenarioDoc ==
    <<Token(TokThe, "det", TokCat), Token(TokCat, "nsubj", TokSleeps),
      Token(TokSleeps, "ROOT", TokSleeps)>>

\* a blank token under the root, and two roots
ExtraDocs ==
    {ScenarioDoc,
     <<Token(SP, "nsubj", TokX), Token(TokX, "ROOT", TokX),
       Token(TokY, "dobj", TokX)>>,
     <<Token(TokY, "neg", TokX), Token(TokX, "ROOT", TokX),
       Token(TokY, "ROOT", TokY)>>}

Docs == SeqsUpTo(Tokens, MaxTokens) \cup ExtraDocs

\* the docs whole stories are made of
StoryDocs ==
    {<<Token(TokX, "det", TokY)>>,
     <<Token(TokX, "ROOT", TokX)>>,
     <<Token(TokY, "nsubj", TokX), Token(TokX, "ROOT", TokX)>>,
     <<Token(TokY, "ROOT", TokY), Token(TokX, "ROOT", TokX)>>,
     ScenarioDoc}

DocInputs ==
    {[kind |-> "doc", docs |-> <<d>>, events |-> <<>>, text |-> <<>>] :
         d \in Docs}

StoryInputs ==
    {[kind |-> "story", docs |-> ds, events |-> <<>>, text |-> <<>>] :
         ds \in SeqsUpTo(StoryDocs, MaxSentences)}

\* pieces of text: words, blanks, markers and parts of markers
MarkerHead == <<"[", "E", "V", "E", "N", "T", "_">>
TailS == <<"s", "]">>
TailSep == <<"s", "e", "p", "]">>
TailE == <<"e", "]">>

Pieces ==
    {EvA, SP, MarkerHead, TailS, TailSep, TailE,
     EVENT_START, EVENT_SEPERATOR, EVENT_END}

RECURSIVE Concat(_)
Concat(parts) == IF parts = <<>> THEN <<>> ELSE parts[1] \o Concat(Tail(parts))

Texts == {Concat(parts) : parts \in SeqsUpTo(Pieces, MaxPieces)}

TextInputs ==
    {[kind |-> "text", docs |-> <<>>, events |-> <<>>, text |-> t] : t \in Texts}

\* the texts of the triggers of the events handed to the formatter
EventTexts ==
    {<<>>, SP, EvA, EvB, EvA \o SP \o EvB, SP \o EvA, MarkerHead, TailS,
     MarkerHead \o TailE, EVENT_SEPERATOR, EvA \o EVENT_END}

\* events made by hand: every role list holds at most one of these pairs
Components == {<<EvA, 0>>, <<EvB, 1>>, <<EvC, 0>>, <<SP, 0>>}

HandMadeEvents ==
    {Event(EvA, [trigger |-> t, modifiers |-> m, agents |-> a, comps |-> c]) :
         t \in SeqsUpTo(Components, 1), m \in SeqsUpTo(Components, 1),
         a \in SeqsUpTo(Components, 1), c \in SeqsUpTo(Components, 1)}

EventLists ==
    {[k \in 1..Len(ts) |-> TriggerOnly(ts[k])] : ts \in SeqsUpTo(EventTexts, MaxEvents)}
        \cup {<<e>> : e \in HandMadeEvents}

EventsInputs ==
    {[kind |-> "events", docs |-> <<>>, events |-> es, text |-> <<>>] :
         es \in EventLists}

\* the stories of a DataFrame, each the docs of its sentences: no sentence,
\* one sentence without trigger, and two stories of several sentences
FrameStories ==
    {<<>>,
     <<<<Token(TokX, "det", TokY)>>>>,
     <<<<Token(TokY, "nsubj", TokX), Token(TokX, "ROOT", TokX)>>,
       <<Token(TokX, "det", TokY)>>,
       ScenarioDoc>>,
     <<ScenarioDoc, <<Token(TokX, "ROOT", TokX)>>>>}

\* the index of a DataFrame of n rows: RangeIndex, or its labels descending
IndexLabels(n) == {[k \in 1..n |-> k - 1], [k \in 1..n |-> n - k]}

StoryDfs ==
    UNION {{[index |-> ix, target |-> t, is_save |-> b] :
                ix \in IndexLabels(Len(t)), b \in BOOLEAN} :
           t \in SeqsUpTo(FrameStories, MaxStories)}

\* a call of extract_events_from_story_df: its arguments are in story_df
DfCall == [kind |-> "df", docs |-> <<>>, events |-> <<>>, text |-> <<>>]

(***************************************************************************)
(* The calls of the extractor, one at a time on one input.                 *)
(***************************************************************************)
InitText ==
    /\ graph_type = "DiGraph"
    /\ graph = NewGraph("DiGraph")
    /\ files = EmptyFn
    /\ pc = "idle"
    /\ df = <<>>
    /\ si = 0
    /\ events = <<>>
    /\ ei = 0
    /\ last = "__init__"
    /\ err = "none"
    /\ ret = <<>>
    /\ built = FALSE
    /\ \/ /\ inp \in DocInputs \cup StoryInputs \cup TextInputs \cup EventsInputs
          /\ story_df = NoDf
       \/ /\ inp = DfCall
          /\ story_df \in StoryDfs
    /\ step = "start"
    /\ pos = 0
    /\ items = <<>>
    /\ outstr = <<>>
    /\ all_sentences = <<>>
    /\ story_indices = <<>>
    /\ story_events = EmptyFn
    /\ events_col = <<>>
    /\ saved = <<>>

\* extract_event_from_text, given the doc nlp returns for the cleaned text
ExtractText ==
    /\ step = "start"
    /\ inp.kind = "doc"
    /\ items' = ExtractEventFromText(inp.docs[1])
    /\ step' = "extracted"
    /\ UNCHANGED <<inp, pos, outstr>>
    /\ UNCHANGED dfVars
    /\ UNCHANGED builderVars

\* extract_events_from_story up to the loop over the docs
StoryStart ==
    /\ step = "start"
    /\ inp.kind = "story"
    /\ items' = <<>>
    /\ pos' = 1
    /\ step' = "docs"
    /\ UNCHANGED <<inp, outstr>>
    /\ UNCHANGED dfVars
    /\ UNCHANGED builderVars

\* one iteration of `for doc in docs`
StoryDoc ==
    /\ step = "docs"
    /\ pos <= Len(inp.docs)
    /\ LET trigger_info == GetTriggerInfo(inp.docs[pos])
       IN  items' = IF trigger_info # <<>>
                    THEN Append(items, BuildEvent(inp.docs[pos], trigger_info[1]))
                    ELSE items
    /\ pos' = pos + 1
    /\ UNCHANGED <<inp, step, outstr>>
    /\ UNCHANGED dfVars
    /\ UNCHANGED builderVars

\* `return events`
StoryReturn ==
    /\ step = "docs"
    /\ pos > Len(inp.docs)
    /\ step' = "events"
    /\ UNCHANGED <<inp, pos, items, outstr>>
    /\ UNCHANGED dfVars
    /\ UNCHANGED builderVars

\* __format_events on the events of a story, extracted or handed in
Format ==
    /\ \/ step = "events"
       \/ step = "start" /\ inp.kind = "events"
    /\ LET evs == IF inp.kind = "events" THEN inp.events ELSE items
       IN  /\ items' = evs
           /\ outstr' = FormatEvents(evs)
    /\ step' = "formatted"
    /\ UNCHANGED <<inp, pos>>
    /\ UNCHANGED dfVars
    /\ UNCHANGED builderVars

\* str(event), on the event extracted from a text or on one handed in
Str ==
    /\ \/ step = "extracted" /\ items # <<>>
       \/ step = "start" /\ inp.kind = "events" /\ Len(inp.events) = 1
    /\ LET evs == IF inp.kind = "events" THEN inp.events ELSE items
       IN  /\ items' = evs
           /\ outstr' = EventStr(evs[1])
    /\ step' = "rendered"
    /\ UNCHANGED <<inp, pos>>
    /\ UNCHANGED dfVars
    /\ UNCHANGED builderVars

\* the formatted story read back as build_graph reads a row
Parse ==
    /\ step = "formatted"
    /\ items' = ParseStory(outstr)
    /\ step' = "parsed"
    /\ UNCHANGED <<inp, pos, outstr>>
    /\ UNCHANGED dfVars
    /\ UNCHANGED builderVars

\* __clear_special_tags_text
Clear ==
    /\ step = "start"
    /\ inp.kind = "text"
    /\ outstr' = ClearSpecialTagsText(inp.text)
    /\ step' = "cleared"
    /\ UNCHANGED <<inp, pos, items>>
    /\ UNCHANGED dfVars
    /\ UNCHANGED builderVars

\* the sentences of the first n stories, in order
RECURSIVE FlattenSentences(_, _)
FlattenSentences(d, n) ==
    IF n = 0 THEN <<>>
    ELSE FlattenSentences(d, n - 1) \o d.target[n]

\* `story_indices.extend([index] * len(sentences))` for the first n stories
RECURSIVE FlattenIndices(_, _)
FlattenIndices(d, n) ==
    IF n = 0 THEN <<>>
    ELSE FlattenIndices(d, n - 1) \o [k \in 1..Len(d.target[n]) |-> d.index[n]]

\* every lookup gives a new empty list
DefaultGet_Fresh(d, key) == <<>>

\* defaultdict(list): d[key], an empty list when the key is new
DefaultGet(d, key) == IF key \in DOMAIN d THEN d[key] ELSE <<>>

\* a cell of df['events'] is <<str>>, or NaN where Index.map found no key
NaN == <<>>

\* `df.index.map(mapping)`
IndexMap(index, mapping) ==
    [r \in 1..Len(index) |->
        IF index[r] \in DOMAIN mapping THEN <<mapping[index[r]]>> ELSE NaN]

\* extract_events_from_story_df up to the loop over zip(docs, story_indices)
DfFlatten ==
    /\ step = "start"
    /\ inp.kind = "df"
    /\ all_sentences' = FlattenSentences(story_df, Len(story_df.target))
    /\ story_indices' = FlattenIndices(story_df, Len(story_df.target))
    /\ story_events' = EmptyFn
    /\ pos' = 1
    /\ step' = "zip"
    /\ UNCHANGED <<inp, items, outstr, story_df, events_col, saved>>
    /\ UNCHANGED builderVars

\* one iteration of `for doc, story_index in zip(docs, story_indices)`
DfDoc ==
    /\ step = "zip"
    /\ pos <= Len(all_sentences)
    /\ LET doc == all_sentences[pos]
           story_index == story_indices[pos]
           trigger_info == GetTriggerInfo(doc)
       IN  story_events' =
               IF trigger_info # <<>>
               THEN (story_index :>
                        Append(DefaultGet(story_events, story_index),
                               BuildEvent(doc, trigger_info[1])))
                    @@ story_events
               ELSE story_events
    /\ pos' = pos + 1
    /\ UNCHANGED <<inp, step, items, outstr, story_df, all_sentences,
                   story_indices, events_col, saved>>
    /\ UNCHANGED builderVars

\* the loop is exhausted: df['events'] is assigned, and written if is_save
DfAssign ==
    /\ step = "zip"
    /\ pos > Len(all_sentences)
    /\ LET column ==
               IndexMap(story_df.index,
                        [index \in DOMAIN story_events |->
                            FormatEvents(story_events[index])])
       IN  /\ events_col' = <<column>>
           /\ saved' = IF story_df.is_save THEN <<column>> ELSE <<>>
    /\ step' = "assigned"
    /\ UNCHANGED <<inp, pos, items, outstr, story_df, all_sentences,
                   story_indices, story_events>>
    /\ UNCHANGED builderVars

NextText ==
    \/ DfFlatten
    \/ DfDoc
    \/ DfAssign
    \/ ExtractText
    \/ StoryStart
    \/ StoryDoc
    \/ StoryReturn
    \/ Format
    \/ Str
    \/ Parse
    \/ Clear

SpecText == InitText /\ [][NextText]_vars

(***************************************************************************)
(* C4                                                                      *)
(***************************************************************************)
HasMarker(s) == \E k \in 1..Len(CHAR_TAGS) : Contains(s, CHAR_TAGS[k])

\* the event strings the formatter joins
Rendered(evs) == [k \in 1..Len(evs) |-> EventStr(evs[k])]

\* C4 as stated: a non-empty list of event strings without markers, written
\* by the formatter and read back, is the list itself.
C4_RoundTripAnyString ==
    (step = "parsed" /\ inp.kind = "events" /\ inp.events # <<>>
        /\ \A k \in 1..Len(inp.events) : ~HasMarker(Rendered(inp.events)[k]))
        => items = Rendered(inp.events)

\* C4 amended: a non-empty list of event strings, each non-empty, without
\* blanks at its ends and without markers, written by the formatter and read
\* back, is the list itself, in the same order.
C4_RoundTrip ==
    (step = "parsed" /\ inp.kind = "events" /\ inp.events # <<>>
        /\ \A k \in 1..Len(inp.events) :
               /\ ~HasMarker(Rendered(inp.events)[k])
               /\ Rendered(inp.events)[k] # <<>>
               /\ Strip(Rendered(inp.events)[k]) = Rendered(inp.events)[k])
        => items = Rendered(inp.events)

\* two events, one with a blank inside and one that is the head of a
\* marker, have been written and read back
C4_Witness ==
    /\ step = "parsed"
    /\ inp.kind = "events"
    /\ Rendered(inp.events) = <<EvA \o SP \o EvB, MarkerHead>>
    /\ \A k \in 1..2 : ~HasMarker(Rendered(inp.events)[k])
    /\ items = Rendered(inp.events)

(***************************************************************************)
(* C6                                                                      *)
(***************************************************************************)
HasTrigger(doc) == \E k \in 1..Len(doc) : doc[k].dep \in trigger_tags

\* the first position of doc whose label is a trigger tag
FirstTrigger(doc) ==
    CHOOSE k \in 1..Len(doc) :
        /\ doc[k].dep \in trigger_tags
        /\ \A j \in 1..(k - 1) : doc[j].dep \notin trigger_tags

\* the positions before n of the docs that have a trigger, ascending
RECURSIVE TriggerDocs(_, _)
TriggerDocs(docs, n) ==
    IF n <= 1 THEN <<>>
    ELSE TriggerDocs(docs, n - 1)
         \o (IF HasTrigger(docs[n - 1]) THEN <<n - 1>> ELSE <<>>)

\* e is an event of doc: its trigger is the first trigger token of doc and
\* its Trigger list holds that token alone
IsEventOf(e, doc) ==
    LET k == FirstTrigger(doc)
    IN  /\ e.trigger = doc[k].text
        /\ e.event_info.trigger = <<<<doc[k].text, k - 1>>>>

\* C6: extraction of a sentence gives None exactly when no token has a
\* trigger label, and otherwise an event of the first such token with one
\* Trigger entry; the events of a story are those of its sentences that have
\* a trigger, the others adding nothing.
C6_TriggerLocation ==
    /\ step = "extracted" =>
           /\ items = <<>> <=> ~HasTrigger(inp.docs[1])
           /\ items # <<>> => Len(items) = 1 /\ IsEventOf(items[1], inp.docs[1])
    /\ step \in {"docs", "events"} =>
           LET with == TriggerDocs(inp.docs, pos)
           IN  /\ Len(items) = Len(with)
               /\ \A j \in 1..Len(with) : IsEventOf(items[j], inp.docs[with[j]])

\* a story: a sentence without trigger, then one with two trigger tokens
C6_Witness ==
    /\ step = "docs"
    /\ pos = 3
    /\ ~HasTrigger(inp.docs[1])
    /\ Cardinality({k \in 1..Len(inp.docs[2]) :
                       inp.docs[2][k].dep \in trigger_tags}) = 2
    /\ Len(items) = 1

(***************************************************************************)
(* C15                                                                     *)
(***************************************************************************)
\* the tag list each argument list of an event is filled from
TagsOf(role) ==
    CASE role = "modifiers" -> modifier_tags
      [] role = "agents" -> agent_tags
      [] role = "comps" -> comp_tags

\* how often the pair occurs in the list
CountIn(list, pair) == Cardinality({j \in 1..Len(list) : list[j] = pair})

\* C15: in the event extracted from a sentence, the token at position k is
\* recorded as (text, k) once in the list of the tag set its label lies in
\* when its head text is the trigger text, and in no other list; a token
\* with another head text, or with a label outside the three sets (the
\* trigger label too), is in no list; the lists hold nothing else; the four
\* tag sets are pairwise disjoint; no index occurs twice in the event.
C15_ArgumentCollection ==
    (step = "extracted" /\ items # <<>>)
        => LET e == items[1]
               doc == inp.docs[1]
               roles == {"modifiers", "agents", "comps"}
               sets == {trigger_tags, modifier_tags, agent_tags, comp_tags}
               flat == AllComponents(e)
           IN  /\ \A k \in 1..Len(doc) : \A role \in roles :
                      CountIn(e.event_info[role], <<doc[k].text, k - 1>>) =
                          IF doc[k].head = e.trigger /\ doc[k].dep \in TagsOf(role)
                          THEN 1 ELSE 0
               /\ \A role \in roles : \A j \in 1..Len(e.event_info[role]) :
                      \E k \in 1..Len(doc) :
                          e.event_info[role][j] = <<doc[k].text, k - 1>>
               /\ \A s, t \in sets : s # t => s \cap t = {}
               /\ \A i, j \in 1..Len(flat) : i # j => flat[i][2] # flat[j][2]

\* a negation under the root x, then a second root y that is its own head:
\* the negation is the one modifier of x, the two roots are in no list
C15_Witness ==
    /\ step = "extracted"
    /\ items # <<>>
    /\ Len(inp.docs[1]) = 3
    /\ inp.docs[1][3].dep = "ROOT"
    /\ inp.docs[1][3].text # items[1].trigger
    /\ items[1].event_info.modifiers = <<<<TokY, 0>>>>
    /\ items[1].event_info.agents = <<>>
    /\ items[1].event_info.comps = <<>>

(***************************************************************************)
(* C14, C16                                                                *)
(***************************************************************************)
\* the events of the docs that have a trigger, in the order of the docs
RECURSIVE EventsOfDocs(_)
EventsOfDocs(docs) ==
    IF docs = <<>> THEN <<>>
    ELSE ExtractEventFromText(Head(docs)) \o EventsOfDocs(Tail(docs))

\* C14 as stated: once df['events'] is assigned, every story has a str in
\* it, the serialized events of the story, and a story without events (no
\* sentence, or no sentence with a trigger) has the empty str.
C14_EveryStoryHasValue ==
    step = "assigned"
        => \A r \in 1..Len(story_df.target) :
               LET cell == events_col[1][r]
                   evs == EventsOfDocs(story_df.target[r])
               IN  /\ cell # NaN
                   /\ cell = <<FormatEvents(evs)>>
                   /\ evs = <<>> => cell = <<<<>>>>

\* the docs among the first n of the batch that belong to the index label
RECURSIVE DocsOfLabel(_, _, _)
DocsOfLabel(docs, labels, label) ==
    IF docs = <<>> THEN <<>>
    ELSE (IF Head(labels) = label THEN <<Head(docs)>> ELSE <<>>)
         \o DocsOfLabel(Tail(docs), Tail(labels), label)

\* the events the batch loop has put under the label so far
EventsUnder(label) ==
    IF label \in DOMAIN story_events THEN story_events[label] ELSE <<>>

C9_NoMarkerLeft == step = "cleared" => ~HasMarker(outstr)

(***************************************************************************)
(* C10                                                                     *)
(***************************************************************************)
\* the pairs of the four role lists
RolePairs(e) ==
    e.event_info.trigger \o e.event_info.modifiers
        \o e.event_info.agents \o e.event_info.comps

\* place of pair i among the pairs in ascending index, ties in list order
RankOf(flat, i) ==
    1 + Cardinality({j \in 1..Len(flat) :
                        \/ flat[j][2] < flat[i][2]
                        \/ flat[j][2] = flat[i][2] /\ j < i})

InIndexOrder(flat) ==
    [r \in 1..Len(flat) |-> flat[CHOOSE i \in 1..Len(flat) : RankOf(flat, i) = r]]

IsSolid(s) == \E k \in 1..Len(s) : s[k] \notin Whitespace

\* the rendering C10 describes
ExpectedRender(e) ==
    LET ordered == InIndexOrder(RolePairs(e))
        trimmed == [k \in 1..Len(ordered) |-> Strip(ordered[k][1])]
    IN  Join(SP, SelectSeq(trimmed, IsSolid))

CatSleeps == TokCat \o SP \o TokSleeps

\* C10: str(event) is the trimmed non-blank texts of the pairs of the four
\* role lists in ascending index, ties in list order, joined by one blank;
\* the event is as it was; "The cat sleeps" renders as "cat sleeps".
C10_Render ==
    step = "rendered" =>
        /\ outstr = ExpectedRender(items[1])
        /\ inp.kind = "events" => items = inp.events
        /\ inp.docs = <<ScenarioDoc>> => outstr = CatSleeps

\* a hand-made event with two pairs of one index and a blank text rendered
C10_Witness ==
    /\ step = "rendered"
    /\ inp.kind = "events"
    /\ items[1].event_info.trigger = <<<<EvB, 1>>>>
    /\ items[1].event_info.modifiers = <<<<EvC, 0>>>>
    /\ items[1].event_info.agents = <<<<SP, 0>>>>
    /\ items[1].event_info.comps = <<<<EvA, 0>>>>
    /\ outstr = EvC \o SP \o EvA \o SP \o EvB

====
